---- MODULE Spec2Model ----
(***************************************************************************)
(* Subscription service (mmoldabe-dev/EffectiveTask): the HTTP handlers,   *)
(* the service layer and the PostgreSQL repository, as one state machine.  *)
(* A date string "MM-YYYY" is the sequence of its seven characters; a      *)
(* time.Time produced by time.Parse("01-2006", s) is the first instant of  *)
(* a month, kept as [year, month]; a *string is a sequence of length 0     *)
(* (nil) or 1.  inflight holds the requests that are being served step by  *)
(* step by concurrent goroutines; it stays empty where every request runs  *)
(* to completion before the next one starts.                               *)
(***************************************************************************)
EXTENDS Integers, Sequences, FiniteSets, TLC

VARIABLES store, nextID, now, last, inflight

vars == <<store, nextID, now, last, inflight>>

\* ------------------------------------------------------------- bounds
\* ids the BIGSERIAL sequence hands out before the model stops inserting
MaxSubs == 2
\* years after 2025 from which the arguments of countMonths are drawn
MaxYearSpan == 2

\* ------------------------------------------------------------- strings
DigitChars == {"0", "1", "2", "3", "4", "5", "6", "7", "8", "9"}

DigitVal(c) ==
  CASE c = "0" -> 0 [] c = "1" -> 1 [] c = "2" -> 2 [] c = "3" -> 3
    [] c = "4" -> 4 [] c = "5" -> 5 [] c = "6" -> 6 [] c = "7" -> 7
    [] c = "8" -> 8 [] c = "9" -> 9

\* nil *string and a set *string
NilStr == <<>>
Ptr(s) == <<s>>
IsNil(p) == Len(p) = 0
Deref(p) == p[1]

\* regexp ^(0[1-9]|1[0-2])-\d{4}$
monthYearRegex(s) ==
  /\ Len(s) = 7
  /\ \/ s[1] = "0" /\ s[2] \in (DigitChars \ {"0"})
     \/ s[1] = "1" /\ s[2] \in {"0", "1", "2"}
  /\ s[3] = "-"
  /\ \A i \in 4..7 : s[i] \in DigitChars

\* time.Parse("01-2006", s): two-digit month 01..12, "-", four-digit year,
\* nothing else; the result is day 1, 00:00 UTC of that month
TimeParseOK(s) ==
  /\ Len(s) = 7
  /\ s[1] \in DigitChars /\ s[2] \in DigitChars
  /\ LET m == 10 * DigitVal(s[1]) + DigitVal(s[2]) IN m >= 1 /\ m <= 12
  /\ s[3] = "-"
  /\ \A i \in 4..7 : s[i] \in DigitChars

TimeParse(s) ==
  [year  |-> 1000 * DigitVal(s[4]) + 100 * DigitVal(s[5])
             + 10 * DigitVal(s[6]) + DigitVal(s[7]),
   month |-> 10 * DigitVal(s[1]) + DigitVal(s[2])]

\* time.Time.Before / After / Equal on first-of-month instants
Before(a, b) == a.year < b.year \/ (a.year = b.year /\ a.month < b.month)
After(a, b) == Before(b, a)
Equal(a, b) == a.year = b.year /\ a.month = b.month

\* time.Date(now.Year(), now.Month(), 1, 0, 0, 0, 0, time.UTC)
currentMonth(t) == [year |-> t.year, month |-> t.month]

\* ------------------------------------------------------------- service/utils.go
\* mutant: the later date is never picked
maxDate_first(a, b) == a

maxDate(a, b) == IF After(a, b) THEN a ELSE b

minDate(a, b) == IF Before(a, b) THEN a ELSE b

\* mutant: the first month is not counted (the + 1 is missing)
countMonths_exclusive(start, end) ==
  IF After(start, end)
    THEN 0
    ELSE (end.year - start.year) * 12 + (end.month - start.month)

countMonths(start, end) ==
  IF After(start, end)
    THEN 0
    ELSE LET years == end.year - start.year
             months == end.month - start.month
         IN  years * 12 + months + 1

\* ------------------------------------------------------------- errors
\* An error value: its kind, and whether its message text contains the
\* words "not found" (the handler of extend matches on that text).
Err(kind, nf) == [kind |-> kind, notfound |-> nf]
NoErr == Err("none", FALSE)

\* ------------------------------------------------------------- domain
NilUUID == "00000000-0000-0000-0000-000000000000"
EmptyStr == <<>>
ZeroTime == [year |-> 1, month |-> 1]

\* the zero value of domain.Subscription
ZeroSub ==
  [id |-> 0, user_id |-> NilUUID, service_name |-> EmptyStr, price |-> 0,
   start_date |-> EmptyStr, end_date |-> NilStr,
   created_at |-> ZeroTime, updated_at |-> ZeroTime]

\* ------------------------------------------------------------- repository
\* TO_DATE(s, 'MM-YYYY') on a column the CHECK constraints keep well formed
ToDate(s) == TimeParse(s)

\* CHECK (price >= 0), check_start_date_format, check_end_date_format
TableChecks(sub) ==
  /\ sub.price >= 0
  /\ monthYearRegex(sub.start_date)
  /\ IsNil(sub.end_date) \/ monthYearRegex(Deref(sub.end_date))

\* mutant: the table carries a UNIQUE (user_id, service_name) constraint
repoCreate_uniquePair(st, nid, t, sub, ok) ==
  IF ~ok
    THEN [err |-> Err("StorageFailure", FALSE), id |-> 0, store |-> st, nextID |-> nid]
    ELSE IF \/ ~TableChecks(sub)
            \/ \E i \in DOMAIN st : /\ st[i].user_id = sub.user_id
                                    /\ st[i].service_name = sub.service_name
      THEN [err |-> Err("StorageFailure", FALSE), id |-> 0, store |-> st,
            nextID |-> nid + 1]
      ELSE [err |-> NoErr, id |-> nid, nextID |-> nid + 1,
            store |-> [i \in DOMAIN st \cup {nid} |->
                        IF i = nid
                          THEN [id |-> nid, user_id |-> sub.user_id,
                                service_name |-> sub.service_name,
                                price |-> sub.price,
                                start_date |-> sub.start_date,
                                end_date |-> sub.end_date,
                                created_at |-> t, updated_at |-> t]
                          ELSE st[i]]]

\* INSERT ... RETURNING id; the sequence value is consumed even when the
\* row is refused by a constraint.
repoCreate(st, nid, t, sub, ok) ==
  IF ~ok
    THEN [err |-> Err("StorageFailure", FALSE), id |-> 0, store |-> st, nextID |-> nid]
    ELSE IF ~TableChecks(sub)
      THEN [err |-> Err("StorageFailure", FALSE), id |-> 0, store |-> st,
            nextID |-> nid + 1]
      ELSE [err |-> NoErr, id |-> nid, nextID |-> nid + 1,
            store |-> [i \in DOMAIN st \cup {nid} |->
                        IF i = nid
                          THEN [id |-> nid, user_id |-> sub.user_id,
                                service_name |-> sub.service_name,
                                price |-> sub.price,
                                start_date |-> sub.start_date,
                                end_date |-> sub.end_date,
                                created_at |-> t, updated_at |-> t]
                          ELSE st[i]]]

\* mutant: start_date is read back as "YYYY-MM"
repoGetByID_yearFirst(st, id, ok) ==
  IF ~ok
    THEN [err |-> Err("StorageFailure", FALSE), sub |-> ZeroSub]
    ELSE IF id \notin DOMAIN st
      THEN [err |-> Err("NotFound", TRUE), sub |-> ZeroSub]
      ELSE [err |-> NoErr,
            sub |-> [st[id] EXCEPT !.start_date =
                       SubSeq(st[id].start_date, 4, 7) \o <<"-">>
                         \o SubSeq(st[id].start_date, 1, 2)]]

repoGetByID(st, id, ok) ==
  IF ~ok
    THEN [err |-> Err("StorageFailure", FALSE), sub |-> ZeroSub]
    ELSE IF id \notin DOMAIN st
      THEN [err |-> Err("NotFound", TRUE), sub |-> ZeroSub]
      ELSE [err |-> NoErr, sub |-> st[id]]

\* mutant: the DELETE has lost its WHERE id = $1
repoDelete_allRows(st, id, ok) ==
  IF ~ok
    THEN [err |-> Err("StorageFailure", FALSE), store |-> st]
    ELSE IF DOMAIN st = {}
      THEN [err |-> Err("NotFound", TRUE), store |-> st]
      ELSE [err |-> NoErr, store |-> <<>>]

repoDelete(st, id, ok) ==
  IF ~ok
    THEN [err |-> Err("StorageFailure", FALSE), store |-> st]
    ELSE IF id \notin DOMAIN st
      THEN [err |-> Err("NotFound", TRUE), store |-> st]
      ELSE [err |-> NoErr, store |-> [i \in DOMAIN st \ {id} |-> st[i]]]

\* mutant: the query has lost its condition on end_date
repoExists_anyEndDate(st, t, userID, serviceName, ok) ==
  IF ~ok
    THEN [err |-> Err("StorageFailure", FALSE), exists |-> FALSE]
    ELSE [err |-> NoErr,
          exists |-> \E i \in DOMAIN st :
                       /\ st[i].user_id = userID
                       /\ st[i].service_name = serviceName]

\* select exists(... end_date IS NULL OR TO_DATE(end_date) >= DATE_TRUNC('month', NOW()))
repoExists(st, t, userID, serviceName, ok) ==
  IF ~ok
    THEN [err |-> Err("StorageFailure", FALSE), exists |-> FALSE]
    ELSE [err |-> NoErr,
          exists |-> \E i \in DOMAIN st :
                       /\ st[i].user_id = userID
                       /\ st[i].service_name = serviceName
                       /\ \/ IsNil(st[i].end_date)
                          \/ ~Before(ToDate(Deref(st[i].end_date)), currentMonth(t))]

\* mutant: the UPDATE has lost its WHERE id = $3
repoExtend_allRows(st, t, id, newEndDate, newPrice, ok) ==
  IF ~ok
    THEN [err |-> Err("StorageFailure", FALSE), store |-> st]
    ELSE IF DOMAIN st = {}
      THEN [err |-> Err("NotFound", TRUE), store |-> st]
      ELSE [err |-> NoErr,
            store |-> [i \in DOMAIN st |->
                        [st[i] EXCEPT !.end_date = Ptr(newEndDate),
                                      !.price = newPrice, !.updated_at = t]]]

\* mutant: RowsAffected is not looked at
repoExtend_noRowsIgnored(st, t, id, newEndDate, newPrice, ok) ==
  IF ~ok
    THEN [err |-> Err("StorageFailure", FALSE), store |-> st]
    ELSE IF id \notin DOMAIN st
      THEN [err |-> NoErr, store |-> st]
      ELSE [err |-> NoErr,
            store |-> [st EXCEPT ![id].end_date = Ptr(newEndDate),
                                 ![id].price = newPrice,
                                 ![id].updated_at = t]]

\* UPDATE subscriptions SET end_date, price, updated_at = NOW() WHERE id
repoExtend(st, t, id, newEndDate, newPrice, ok) ==
  IF ~ok
    THEN [err |-> Err("StorageFailure", FALSE), store |-> st]
    ELSE IF id \notin DOMAIN st
      THEN [err |-> Err("NotFound", TRUE), store |-> st]
      ELSE [err |-> NoErr,
            store |-> [st EXCEPT ![id].end_date = Ptr(newEndDate),
                                 ![id].price = newPrice,
                                 ![id].updated_at = t]]

\* ILIKE folds the case of both sides
UpperChars == <<"A", "B", "C", "D", "E", "F", "G", "H", "I", "J", "K", "L", "M",
                "N", "O", "P", "Q", "R", "S", "T", "U", "V", "W", "X", "Y", "Z">>
LowerChars == <<"a", "b", "c", "d", "e", "f", "g", "h", "i", "j", "k", "l", "m",
                "n", "o", "p", "q", "r", "s", "t", "u", "v", "w", "x", "y", "z">>

ToLower(c) ==
  IF \E k \in DOMAIN UpperChars : UpperChars[k] = c
    THEN LowerChars[CHOOSE k \in DOMAIN UpperChars : UpperChars[k] = c]
    ELSE c

\* service_name ILIKE '%' || pat || '%' for a pat of letters and "_" (which
\* stands for any one character)
ilikeContains(s, pat) ==
  \E k \in 0..(Len(s) - Len(pat)) :
    \A j \in 1..Len(pat) : pat[j] = "_" \/ ToLower(pat[j]) = ToLower(s[k + j])

\* the page size of the query when the filter carries none
RepoDefaultLimit == 10

\* WHERE user_id = $1 [AND service_name ILIKE ..] [AND price >= ..] [AND price <= ..]
listRows(st, userID, filter) ==
  {i \in DOMAIN st :
     /\ st[i].user_id = userID
     /\ filter.service_name = EmptyStr
          \/ ilikeContains(st[i].service_name, filter.service_name)
     /\ filter.min_price > 0 => st[i].price >= filter.min_price
     /\ filter.max_price > 0 => st[i].price <= filter.max_price}

\* SELECT ... LIMIT [OFFSET]: the query has no ORDER BY, order is the order
\* in which the rows happen to come; every column is scanned
repoList(st, userID, filter, order, ok) ==
  IF ~ok
    THEN [err |-> Err("StorageFailure", FALSE), subs |-> <<>>]
    ELSE LET limit == IF filter.limit <= 0 THEN RepoDefaultLimit ELSE filter.limit
             offset == IF filter.offset > 0 THEN filter.offset ELSE 0
             hi == IF Len(order) < offset + limit THEN Len(order) ELSE offset + limit
         IN  [err |-> NoErr,
              subs |-> [k \in 1..(IF hi > offset THEN hi - offset ELSE 0) |->
                          st[order[offset + k]]]]

\* ------------------------------------------------------------- service
\* mutant: the price is looked at after the existence check
svcCreate_existsFirst(st, nid, t, sub, fault) ==
  LET e == repoExists(st, t, sub.user_id, sub.service_name, fault # "exists")
  IN  IF e.err.kind # "none"
        THEN [err |-> e.err, id |-> 0, store |-> st, nextID |-> nid]
        ELSE IF e.exists
          THEN [err |-> Err("AlreadyExists", FALSE), id |-> 0, store |-> st,
                nextID |-> nid]
          ELSE IF sub.price < 0
            THEN [err |-> Err("NegativePrice", FALSE), id |-> 0, store |-> st,
                  nextID |-> nid]
            ELSE repoCreate(st, nid, t, sub, fault # "insert")

svcCreate(st, nid, t, sub, fault) ==
  IF sub.price < 0
    THEN [err |-> Err("NegativePrice", FALSE), id |-> 0, store |-> st, nextID |-> nid]
    ELSE LET e == repoExists(st, t, sub.user_id, sub.service_name, fault # "exists")
         IN  IF e.err.kind # "none"
               THEN [err |-> e.err, id |-> 0, store |-> st, nextID |-> nid]
               ELSE IF e.exists
                 THEN [err |-> Err("AlreadyExists", FALSE), id |-> 0, store |-> st,
                       nextID |-> nid]
                 ELSE repoCreate(st, nid, t, sub, fault # "insert")

svcGetByID(st, id, fault) == repoGetByID(st, id, fault # "load")

svcDelete(st, id, fault) == repoDelete(st, id, fault # "write")

\* mutant: a bound of 0 is no longer read as "no bound"
invalidPriceRange_noZeroGuard(filter) == filter.min_price > filter.max_price

\* filter.MinPrice > 0 && filter.MaxPrice > 0 && filter.MinPrice > filter.MaxPrice
invalidPriceRange(filter) ==
  /\ filter.min_price > 0
  /\ filter.max_price > 0
  /\ filter.min_price > filter.max_price

svcList(st, userID, filter, order, fault) ==
  IF invalidPriceRange(filter)
    THEN [err |-> Err("InvalidFilter", FALSE), subs |-> <<>>]
    ELSE repoList(st, userID, filter, order, fault # "load")

\* mutant: the current month itself counts as past
extendsToPast_orNow(newEndDate, cm) == ~After(newEndDate, cm)

\* mutant: the check against the current month is lost
extendsToPast_never(newEndDate, cm) == FALSE

\* newEndDate.Before(currentMonth)
extendsToPast(newEndDate, cm) == Before(newEndDate, cm)

\* mutant: the operands are swapped
endsBeforeStart_swapped(newEndDate, startDate) == Before(startDate, newEndDate)

\* newEndDate.Before(startDate)
endsBeforeStart(newEndDate, startDate) == Before(newEndDate, startDate)

\* mutant: an equal end date is let through
notAfterOldEnd_strict(newEndDate, oldEndDate) == Before(newEndDate, oldEndDate)

\* newEndDate.Before(oldEndDate) || newEndDate.Equal(oldEndDate)
notAfterOldEnd(newEndDate, oldEndDate) ==
  Before(newEndDate, oldEndDate) \/ Equal(newEndDate, oldEndDate)

\* the checks of Extend on its arguments, before the subscription is loaded
extendArgCheck(newEndDateStr, newPrice) ==
  IF ~monthYearRegex(newEndDateStr) THEN "InvalidDateFormat"
  ELSE IF newPrice < 0 THEN "NegativePrice"
  ELSE "ok"

\* the checks of Extend on the subscription it has loaded: "ok", or the kind
\* of the error
extendChecks(sub, t, newEndDateStr) ==
  IF ~TimeParseOK(sub.start_date) \/ ~TimeParseOK(newEndDateStr)
    THEN "InternalDateParse"
  ELSE LET startDate == TimeParse(sub.start_date)
           newEndDate == TimeParse(newEndDateStr)
       IN
  IF extendsToPast(newEndDate, currentMonth(t)) THEN "PastExtension"
  ELSE IF endsBeforeStart(newEndDate, startDate) THEN "EndBeforeStart"
  ELSE IF /\ ~IsNil(sub.end_date)
          /\ notAfterOldEnd(newEndDate, TimeParse(Deref(sub.end_date)))
    THEN "NonAdvancingExtension"
  ELSE "ok"

\* mutant: the UPDATE runs before the checks on the loaded subscription
svcExtend_writeFirst(st, t, id, newEndDateStr, newPrice, fault) ==
  IF extendArgCheck(newEndDateStr, newPrice) # "ok"
    THEN [err |-> Err(extendArgCheck(newEndDateStr, newPrice), FALSE), store |-> st]
  ELSE LET g == repoGetByID(st, id, fault # "load")
           w == repoExtend(st, t, id, newEndDateStr, newPrice, fault # "write")
       IN
  IF g.err.kind # "none"
    THEN [err |-> Err(g.err.kind, TRUE), store |-> st]
  ELSE IF extendChecks(g.sub, t, newEndDateStr) # "ok"
    THEN [err |-> Err(extendChecks(g.sub, t, newEndDateStr), FALSE),
          store |-> w.store]
  ELSE w

svcExtend(st, t, id, newEndDateStr, newPrice, fault) ==
  IF extendArgCheck(newEndDateStr, newPrice) # "ok"
    THEN [err |-> Err(extendArgCheck(newEndDateStr, newPrice), FALSE), store |-> st]
  ELSE LET g == repoGetByID(st, id, fault # "load") IN
  IF g.err.kind # "none"
    \* fmt.Errorf("%s: sub not found: %w", op, err) for every load error
    THEN [err |-> Err(g.err.kind, TRUE), store |-> st]
  ELSE IF extendChecks(g.sub, t, newEndDateStr) # "ok"
    THEN [err |-> Err(extendChecks(g.sub, t, newEndDateStr), FALSE), store |-> st]
  ELSE repoExtend(st, t, id, newEndDateStr, newPrice, fault # "write")

\* ------------------------------------------------------------- total cost
\* mutant: start_date < $3 instead of start_date <= $3
overlapsPeriod_strict(row, from, to) ==
  /\ Before(ToDate(row.start_date), to)
  /\ IsNil(row.end_date) \/ ~Before(ToDate(Deref(row.end_date)), from)

\* WHERE user_id = $1 AND TO_DATE(start_date) <= $3
\*   AND (end_date IS NULL OR TO_DATE(end_date) >= $2) [AND service_name = $4]
overlapsPeriod(row, from, to) ==
  /\ ~After(ToDate(row.start_date), to)
  /\ IsNil(row.end_date) \/ ~Before(ToDate(Deref(row.end_date)), from)

\* mutant: the WHERE clause has lost user_id = $1
totalCostRows_anyUser(st, userID, serviceName, from, to) ==
  {i \in DOMAIN st :
     /\ overlapsPeriod(st[i], from, to)
     /\ serviceName = EmptyStr \/ st[i].service_name = serviceName}

totalCostRows(st, userID, serviceName, from, to) ==
  {i \in DOMAIN st :
     /\ st[i].user_id = userID
     /\ overlapsPeriod(st[i], from, to)
     /\ serviceName = EmptyStr \/ st[i].service_name = serviceName}

\* rows.Scan(&s.Price, &s.StartDate, &s.EndDate): the other fields of the
\* scanned domain.Subscription keep their zero values
scanTotalCostRow(row) ==
  [ZeroSub EXCEPT !.price = row.price, !.start_date = row.start_date,
                  !.end_date = row.end_date]

\* The query has no ORDER BY: the rows come in any order.
Orders(S) ==
  {o \in [1..Cardinality(S) -> S] : \A a, b \in 1..Cardinality(S) : o[a] = o[b] => a = b}

repoGetTotalCost(st, userID, serviceName, from, to, order, ok) ==
  IF ~ok
    THEN [err |-> Err("StorageFailure", FALSE), subs |-> <<>>]
    ELSE [err |-> NoErr,
          subs |-> [k \in 1..Len(order) |-> scanTotalCostRow(st[order[k]])]]

\* fmt.Sprintf("%s: %d", sub.ServiceName, cost)
lineItem(serviceName, cost) == [service_name |-> serviceName, sep |-> ": ", cost |-> cost]

\* mutant: the else branch for a missing end_date is forgotten, subEnd stays
\* the zero time
monthsBilled_noOpenEnd(sub, reqFrom, reqTo) ==
  LET subStart == TimeParse(sub.start_date)
      subEnd == IF ~IsNil(sub.end_date) THEN TimeParse(Deref(sub.end_date)) ELSE ZeroTime
      intersectStart == maxDate(reqFrom, subStart)
      intersectEnd == minDate(reqTo, subEnd)
  IN  countMonths(intersectStart, intersectEnd)

monthsBilled(sub, reqFrom, reqTo) ==
  LET subStart == TimeParse(sub.start_date)
      subEnd == IF ~IsNil(sub.end_date) THEN TimeParse(Deref(sub.end_date)) ELSE reqTo
      intersectStart == maxDate(reqFrom, subStart)
      intersectEnd == minDate(reqTo, subEnd)
  IN  countMonths(intersectStart, intersectEnd)

\* mutant: totalCost = cost instead of totalCost += cost
addCost_assign(acc, sub, reqFrom, reqTo) ==
  LET months == monthsBilled(sub, reqFrom, reqTo)
      cost == sub.price * months
  IN  IF months > 0
        THEN [totalCost |-> cost,
              details |-> Append(acc.details, lineItem(sub.service_name, cost))]
        ELSE acc

\* one iteration of the loop over subs
addCost(acc, sub, reqFrom, reqTo) ==
  LET months == monthsBilled(sub, reqFrom, reqTo)
      cost == sub.price * months
  IN  IF months > 0
        THEN [totalCost |-> acc.totalCost + cost,
              details |-> Append(acc.details, lineItem(sub.service_name, cost))]
        ELSE acc

\* mutant: the loop stops after the first row
costLoop_firstRowOnly(subs, k, reqFrom, reqTo, acc) ==
  IF k > Len(subs) \/ k > 1
    THEN acc
    ELSE addCost(acc, subs[k], reqFrom, reqTo)

RECURSIVE costLoop(_, _, _, _, _)
costLoop(subs, k, reqFrom, reqTo, acc) ==
  IF k > Len(subs)
    THEN acc
    ELSE costLoop(subs, k + 1, reqFrom, reqTo, addCost(acc, subs[k], reqFrom, reqTo))

svcGetTotalCost(st, userID, serviceName, fromStr, toStr, order, fault) ==
  IF ~TimeParseOK(fromStr) \/ ~TimeParseOK(toStr)
    THEN [err |-> Err("InvalidDateFormat", FALSE), totalCost |-> 0, details |-> <<>>]
    ELSE LET reqFrom == TimeParse(fromStr)
             reqTo == TimeParse(toStr)
             r == repoGetTotalCost(st, userID, serviceName, reqFrom, reqTo, order,
                                   fault # "load")
         IN  IF r.err.kind # "none"
               THEN [err |-> r.err, totalCost |-> 0, details |-> <<>>]
               ELSE LET acc == costLoop(r.subs, 1, reqFrom, reqTo,
                                        [totalCost |-> 0, details |-> <<>>])
                    IN  [err |-> NoErr, totalCost |-> acc.totalCost,
                         details |-> acc.details]

\* ------------------------------------------------------------- handlers
MaxServiceNameLen == 100
StatusOK == 200
StatusCreated == 201
StatusBadRequest == 400
StatusNotFound == 404
StatusConflict == 409
StatusInternalServerError == 500

isInvalidDate(dateStr) ==
  IF dateStr = EmptyStr
    THEN FALSE
    ELSE IF ~monthYearRegex(dateStr) THEN TRUE ELSE ~TimeParseOK(dateStr)

\* strings.TrimSpace(s) == ""
trimsToEmpty(s) == \A i \in 1..Len(s) : s[i] = " "

\* parseID leaves only positive integers through
parseIDOK(id) == id > 0

\* mutant: the handler does not look at the price and leaves it to the service
createValidation_noPriceCheck(input) ==
  IF input.user_id = NilUUID THEN "InvalidUserID"
  ELSE IF trimsToEmpty(input.service_name) \/ Len(input.service_name) > MaxServiceNameLen
    THEN "InvalidServiceName"
  ELSE IF isInvalidDate(input.start_date) THEN "InvalidDateFormat"
  ELSE IF IsNil(input.end_date) THEN "ok"
  ELSE IF isInvalidDate(Deref(input.end_date)) THEN "InvalidDateFormat"
  ELSE IF ~TimeParseOK(input.start_date) \/ ~TimeParseOK(Deref(input.end_date))
    THEN "InvalidDateValues"
  ELSE IF Before(TimeParse(Deref(input.end_date)), TimeParse(input.start_date))
    THEN "EndBeforeStart"
  ELSE "ok"

\* mutant: the comparison of end_date with start_date is missing
createValidation_noRangeCheck(input) ==
  IF input.user_id = NilUUID THEN "InvalidUserID"
  ELSE IF trimsToEmpty(input.service_name) \/ Len(input.service_name) > MaxServiceNameLen
    THEN "InvalidServiceName"
  ELSE IF input.price < 0 THEN "NegativePrice"
  ELSE IF isInvalidDate(input.start_date) THEN "InvalidDateFormat"
  ELSE IF IsNil(input.end_date) THEN "ok"
  ELSE IF isInvalidDate(Deref(input.end_date)) THEN "InvalidDateFormat"
  ELSE IF ~TimeParseOK(input.start_date) \/ ~TimeParseOK(Deref(input.end_date))
    THEN "InvalidDateValues"
  ELSE "ok"

\* the validation of createSubscription before the service is called:
\* "ok", or the kind of the 400 answer
createValidation(input) ==
  IF input.user_id = NilUUID THEN "InvalidUserID"
  ELSE IF trimsToEmpty(input.service_name) \/ Len(input.service_name) > MaxServiceNameLen
    THEN "InvalidServiceName"
  ELSE IF input.price < 0 THEN "NegativePrice"
  ELSE IF isInvalidDate(input.start_date) THEN "InvalidDateFormat"
  ELSE IF IsNil(input.end_date) THEN "ok"
  ELSE IF isInvalidDate(Deref(input.end_date)) THEN "InvalidDateFormat"
  ELSE IF ~TimeParseOK(input.start_date) \/ ~TimeParseOK(Deref(input.end_date))
    THEN "InvalidDateValues"
  ELSE IF Before(TimeParse(Deref(input.end_date)), TimeParse(input.start_date))
    THEN "EndBeforeStart"
  ELSE "ok"

createSubscription(st, nid, t, input, fault) ==
  LET v == createValidation(input) IN
  IF v # "ok"
    THEN [err |-> Err(v, FALSE), status |-> StatusBadRequest, id |-> 0,
          store |-> st, nextID |-> nid]
    ELSE LET r == svcCreate(st, nid, t, input, fault)
         IN  [err |-> r.err,
              status |-> IF r.err.kind = "none" THEN StatusCreated
                         ELSE IF r.err.kind = "AlreadyExists" THEN StatusConflict
                         ELSE StatusInternalServerError,
              id |-> r.id, store |-> r.store, nextID |-> r.nextID]

getSubscription(st, id, fault) ==
  IF ~parseIDOK(id)
    THEN [err |-> Err("InvalidID", FALSE), status |-> StatusBadRequest, sub |-> ZeroSub]
    ELSE LET r == svcGetByID(st, id, fault)
         IN  [err |-> r.err,
              status |-> IF r.err.kind = "none" THEN StatusOK ELSE StatusNotFound,
              sub |-> r.sub]

deleteSubscription(st, id, fault) ==
  IF ~parseIDOK(id)
    THEN [err |-> Err("InvalidID", FALSE), status |-> StatusBadRequest, store |-> st]
    ELSE LET r == svcDelete(st, id, fault)
         IN  [err |-> r.err,
              status |-> IF r.err.kind = "none" THEN StatusOK ELSE StatusNotFound,
              store |-> r.store]

\* page size of listSubscription when the query names none, and its cap
DefaultLimit == 10
MaxLimit == 200

\* the filter listSubscription builds from the query parameters; a parameter
\* that is absent or not a number counts as 0
listFilter(userID, q) ==
  [user_id |-> userID, service_name |-> q.service_name,
   min_price |-> q.min_price, max_price |-> q.max_price,
   limit |-> IF q.limit > 0 THEN q.limit ELSE DefaultLimit,
   offset |-> IF q.offset >= 0 THEN q.offset ELSE 0]

listSubscription(st, userID, q, order, fault) ==
  IF listFilter(userID, q).limit > MaxLimit
    THEN [err |-> Err("InvalidLimit", FALSE), status |-> StatusBadRequest, subs |-> <<>>]
  ELSE IF q.min_price < 0 \/ q.max_price < 0
    THEN [err |-> Err("NegativePriceFilter", FALSE), status |-> StatusBadRequest,
          subs |-> <<>>]
  ELSE LET r == svcList(st, userID, listFilter(userID, q), order, fault)
       IN  [err |-> r.err,
            status |-> IF r.err.kind = "none" THEN StatusOK
                       ELSE StatusInternalServerError,
            subs |-> r.subs]

extendSubscription(st, t, id, endDate, price, fault) ==
  IF ~parseIDOK(id)
    THEN [err |-> Err("InvalidID", FALSE), status |-> StatusBadRequest, store |-> st]
  ELSE IF isInvalidDate(endDate)
    THEN [err |-> Err("InvalidDateFormat", FALSE), status |-> StatusBadRequest,
          store |-> st]
  ELSE IF price < 0
    THEN [err |-> Err("NegativePrice", FALSE), status |-> StatusBadRequest, store |-> st]
  ELSE LET r == svcExtend(st, t, id, endDate, price, fault)
       IN  [err |-> r.err,
            status |-> IF r.err.kind = "none" THEN StatusOK
                       ELSE IF r.err.notfound THEN StatusNotFound
                       ELSE StatusBadRequest,
            store |-> r.store]

\* mutant: !toDate.Before(currentMonth), the current month counts as future
forecastWarning_notBefore(toStr, t) ==
  /\ toStr # EmptyStr
  /\ TimeParseOK(toStr)
  /\ ~Before(TimeParse(toStr), currentMonth(t))

\* toDate.After(currentMonth): the forecast warning of the total cost answer
forecastWarning(toStr, t) ==
  /\ toStr # EmptyStr
  /\ TimeParseOK(toStr)
  /\ After(TimeParse(toStr), currentMonth(t))

getTotalCost(st, t, userID, serviceName, fromStr, toStr, order, fault) ==
  IF isInvalidDate(fromStr) \/ isInvalidDate(toStr)
    THEN [err |-> Err("InvalidDateFormat", FALSE), status |-> StatusBadRequest,
          totalCost |-> 0, details |-> <<>>, warning |-> FALSE]
    ELSE LET r == svcGetTotalCost(st, userID, serviceName, fromStr, toStr, order, fault)
         IN  IF r.err.kind # "none"
               THEN [err |-> r.err, status |-> StatusBadRequest, totalCost |-> 0,
                     details |-> <<>>, warning |-> FALSE]
               ELSE [err |-> NoErr, status |-> StatusOK, totalCost |-> r.totalCost,
                     details |-> r.details, warning |-> forecastWarning(toStr, t)]

\* ------------------------------------------------------------- requests
\* The values the requests of the model carry.
D0126 == <<"0", "1", "-", "2", "0", "2", "6">>
D0626 == <<"0", "6", "-", "2", "0", "2", "6">>
D1226 == <<"1", "2", "-", "2", "0", "2", "6">>
D0127 == <<"0", "1", "-", "2", "0", "2", "7">>
D1326 == <<"1", "3", "-", "2", "0", "2", "6">>

Netflix == <<"N", "f">>
Spotify == <<"S", "p">>

Users == {"u1", "u2"}

\* price of the README examples, and the price an extension sets
BasePrice == 500
NewPrice == 600

NewSub(u, n, p, sd, ed) ==
  [id |-> 0, user_id |-> u, service_name |-> n, price |-> p, start_date |-> sd,
   end_date |-> ed, created_at |-> ZeroTime, updated_at |-> ZeroTime]

\* the requests that pass the validation of the handler ...
CreateInputs ==
  {NewSub("u1", Netflix, BasePrice, D0126, Ptr(D1226)),
   NewSub("u1", Spotify, BasePrice, D0626, NilStr),
   NewSub("u2", Netflix, BasePrice, D0127, NilStr)}

\* ... and those it refuses, or lets through to a CHECK of the table
BadCreateInputs ==
  {NewSub("u1", Netflix, -1, D0126, NilStr),
   NewSub("u1", Netflix, BasePrice, D0127, Ptr(D1226)),
   NewSub("u1", Netflix, BasePrice, D1326, NilStr),
   NewSub("u1", Netflix, BasePrice, EmptyStr, NilStr)}

\* a request, and the repository call of it during which storage fails
CreateCalls ==
  (CreateInputs \X {"none", "exists", "insert"}) \cup (BadCreateInputs \X {"none"})

ExtendDates == {D0626, D1226, D0127}

ExtendCalls ==
  (ExtendDates \X {NewPrice} \X {"none"})
    \cup {<<D0127, NewPrice, "load">>, <<D0127, NewPrice, "write">>,
          <<D1326, NewPrice, "none">>, <<D0626, -1, "none">>, <<D1226, -1, "none">>}

Periods == {<<D0126, D1226>>, <<D0626, D0127>>, <<D1226, D0626>>, <<D0127, D0127>>}

TotalCostCalls ==
  ({<<"u1", EmptyStr>>, <<"u1", Netflix>>, <<"u2", EmptyStr>>}
     \X Periods \X {"none"})
    \cup {<<<<"u1", EmptyStr>>, <<D1326, D1226>>, "none">>,
          <<<<"u1", EmptyStr>>, <<D0126, D1226>>, "load">>}

ListQuery(n, lo, hi, l, o) ==
  [service_name |-> n, min_price |-> lo, max_price |-> hi, limit |-> l, offset |-> o]

NoFilter == ListQuery(EmptyStr, 0, 0, 0, 0)
InvertedPrices == ListQuery(EmptyStr, NewPrice, BasePrice, 0, 0)

ListQueries ==
  {NoFilter,
   InvertedPrices,
   ListQuery(<<"n">>, 0, 0, 0, 0),
   ListQuery(EmptyStr, BasePrice, NewPrice, 0, 0),
   ListQuery(EmptyStr, NewPrice, 0, 0, 0),
   ListQuery(EmptyStr, 0, 0, 1, 1),
   ListQuery(EmptyStr, -1, 0, 0, 0),
   ListQuery(EmptyStr, 0, 0, MaxLimit + 1, 0)}

ListCalls ==
  ({"u1"} \X ListQueries \X {"none"})
    \cup ({"u1"} \X {NoFilter, InvertedPrices} \X {"load"})
    \cup {<<"u2", NoFilter, "none">>}

IDs == 1..MaxSubs

\* the months the wall clock may show while the requests are served
NowValues == {[year |-> 2026, month |-> 12], [year |-> 2027, month |-> 1]}

\* ------------------------------------------------------------- state machine
NoCall == [op |-> "none"]

\* the goroutines that serve requests side by side, and one that serves none
Workers == {"w1", "w2"}
Idle == [pc |-> "idle"]
NoneInFlight == [w \in Workers |-> Idle]

Init ==
  /\ store = <<>>
  /\ nextID = 1
  /\ now \in NowValues
  /\ last = NoCall
  /\ inflight = NoneInFlight

Create(input, fault) ==
  /\ nextID <= MaxSubs
  /\ \E r \in {createSubscription(store, nextID, now, input, fault)} :
         /\ store' = r.store
         /\ nextID' = r.nextID
         /\ last' = [op |-> "Create", input |-> input, err |-> r.err.kind,
                     status |-> r.status, id |-> r.id]
  /\ UNCHANGED <<now, inflight>>

GetByID(id, fault) ==
  /\ \E r \in {getSubscription(store, id, fault)} :
         last' = [op |-> "GetByID", id |-> id, err |-> r.err.kind,
                  status |-> r.status, sub |-> r.sub]
  /\ UNCHANGED <<store, nextID, now, inflight>>

Delete(id, fault) ==
  /\ \E r \in {deleteSubscription(store, id, fault)} :
         /\ store' = r.store
         /\ last' = [op |-> "Delete", id |-> id, err |-> r.err.kind,
                     status |-> r.status]
  /\ UNCHANGED <<nextID, now, inflight>>

Extend(id, endDate, price, fault) ==
  /\ \E r \in {extendSubscription(store, now, id, endDate, price, fault)} :
         /\ store' = r.store
         /\ last' = [op |-> "Extend", id |-> id, end_date |-> endDate,
                     price |-> price, err |-> r.err.kind, status |-> r.status]
  /\ UNCHANGED <<nextID, now, inflight>>

List(userID, q, fault) ==
  /\ \E order \in Orders(listRows(store, userID, listFilter(userID, q))) :
       \E r \in {listSubscription(store, userID, q, order, fault)} :
           last' = [op |-> "List", user_id |-> userID, query |-> q,
                    err |-> r.err.kind, status |-> r.status, subs |-> r.subs]
  /\ UNCHANGED <<store, nextID, now, inflight>>

GetTotalCost(userID, serviceName, fromStr, toStr, fault) ==
  /\ \E order \in (IF TimeParseOK(fromStr) /\ TimeParseOK(toStr)
                     THEN Orders(totalCostRows(store, userID, serviceName,
                                               TimeParse(fromStr), TimeParse(toStr)))
                     ELSE {<<>>}) :
       \E r \in {getTotalCost(store, now, userID, serviceName, fromStr, toStr, order,
                             fault)} :
           last' = [op |-> "GetTotalCost", user_id |-> userID,
                    service_name |-> serviceName, from |-> fromStr, to |-> toStr,
                    err |-> r.err.kind, status |-> r.status,
                    totalCost |-> r.totalCost, details |-> r.details,
                    warning |-> r.warning]
  /\ UNCHANGED <<store, nextID, now, inflight>>

Next ==
  \/ \E c \in CreateCalls : Create(c[1], c[2])
  \/ \E id \in IDs, fault \in {"none", "load"} : GetByID(id, fault)
  \/ \E id \in IDs, fault \in {"none", "write"} : Delete(id, fault)
  \/ \E id \in IDs, c \in ExtendCalls : Extend(id, c[1], c[2], c[3])
  \/ \E c \in TotalCostCalls : GetTotalCost(c[1][1], c[1][2], c[2][1], c[2][2], c[3])
  \/ \E c \in ListCalls : List(c[1], c[2], c[3])

Spec == Init /\ [][Next]_vars

\* ------------------------------------------------------------- countMonths alone
\* countMonths applied to every pair of first-of-month instants of a few years
Instants == {[year |-> y, month |-> m] : y \in 2025..(2025 + MaxYearSpan), m \in 1..12}

InitCount ==
  /\ store = <<>>
  /\ nextID = 1
  /\ now \in NowValues
  /\ last \in {[op |-> "countMonthsArgs", start |-> a, end |-> b] :
                 a \in Instants, b \in Instants}
  /\ inflight = NoneInFlight

CountMonthsCall ==
  /\ last.op = "countMonthsArgs"
  /\ last' = [op |-> "countMonths", start |-> last.start, end |-> last.end,
              months |-> countMonths(last.start, last.end)]
  /\ UNCHANGED <<store, nextID, now, inflight>>

NextCount == CountMonthsCall

SpecCount == InitCount /\ [][NextCount]_vars

\* ------------------------------------------------------------- concurrent requests
\* Every request runs in a goroutine of its own (net/http); the service holds
\* no lock and opens no transaction, so the repository calls of two requests
\* interleave.  A step below is one repository call of one request together
\* with the code of the handler and the service around it.
RaceCreateInputs ==
  {NewSub("u1", Spotify, BasePrice, D0626, NilStr),
   NewSub("u1", Netflix, BasePrice, D0126, Ptr(D1226))}

RaceExtendDates == {D1226, D0127}

\* requests between their existence check and the answer of their insert
InsertsPending ==
  Cardinality({w \in Workers : inflight[w].pc \in {"exists", "insert"}})

Answered(w, rec) == inflight' = [inflight EXCEPT ![w] = rec]

\* createSubscription up to the call of repo.Exists
StartCreate(w, input) ==
  /\ inflight[w].pc = "idle"
  /\ nextID + InsertsPending <= MaxSubs
  /\ IF createValidation(input) # "ok"
       THEN Answered(w, [pc |-> "done", op |-> "Create", input |-> input,
                         err |-> createValidation(input), id |-> 0,
                         seen |-> 0, at |-> 0])
     ELSE IF input.price < 0
       THEN Answered(w, [pc |-> "done", op |-> "Create", input |-> input,
                         err |-> "NegativePrice", id |-> 0, seen |-> 0, at |-> 0])
     ELSE Answered(w, [pc |-> "exists", op |-> "Create", input |-> input,
                       err |-> "none", id |-> 0, seen |-> 0, at |-> 0])
  /\ UNCHANGED <<store, nextID, now, last>>

\* repo.Exists and the branch on its answer; seen is the value of the id
\* sequence when the query ran
ExistsStep(w) ==
  /\ inflight[w].pc = "exists"
  /\ \E e \in {repoExists(store, now, inflight[w].input.user_id,
                          inflight[w].input.service_name, TRUE)} :
       IF e.exists
         THEN Answered(w, [inflight[w] EXCEPT !.pc = "done",
                                              !.err = "AlreadyExists",
                                              !.seen = nextID])
         ELSE Answered(w, [inflight[w] EXCEPT !.pc = "insert", !.seen = nextID])
  /\ UNCHANGED <<store, nextID, now, last>>

\* repo.Create and the answer; at is the value of the id sequence when the
\* INSERT ran
InsertStep(w) ==
  /\ inflight[w].pc = "insert"
  /\ \E r \in {repoCreate(store, nextID, now, inflight[w].input, TRUE)} :
       /\ store' = r.store
       /\ nextID' = r.nextID
       /\ Answered(w, [inflight[w] EXCEPT !.pc = "done", !.err = r.err.kind,
                                          !.id = r.id, !.at = nextID])
  /\ UNCHANGED <<now, last>>

\* extendSubscription and Extend up to the call of repo.GetByID
StartExtend(w, id, endDate, price) ==
  /\ inflight[w].pc = "idle"
  /\ LET v == IF ~parseIDOK(id) THEN "InvalidID"
              ELSE IF isInvalidDate(endDate) THEN "InvalidDateFormat"
              ELSE extendArgCheck(endDate, price)
     IN  Answered(w, [pc |-> IF v = "ok" THEN "load" ELSE "done", op |-> "Extend",
                      id |-> id, end_date |-> endDate, price |-> price,
                      err |-> IF v = "ok" THEN "none" ELSE v, sub |-> ZeroSub])
  /\ UNCHANGED <<store, nextID, now, last>>

\* repo.GetByID and the checks of Extend on the subscription it returned
LoadStep(w) ==
  /\ inflight[w].pc = "load"
  /\ \E g \in {repoGetByID(store, inflight[w].id, TRUE)} :
       IF g.err.kind # "none"
         THEN Answered(w, [inflight[w] EXCEPT !.pc = "done", !.err = g.err.kind])
       ELSE IF extendChecks(g.sub, now, inflight[w].end_date) # "ok"
         THEN Answered(w, [inflight[w] EXCEPT
                             !.pc = "done",
                             !.err = extendChecks(g.sub, now, inflight[w].end_date),
                             !.sub = g.sub])
       ELSE Answered(w, [inflight[w] EXCEPT !.pc = "write", !.sub = g.sub])
  /\ UNCHANGED <<store, nextID, now, last>>

\* repo.Extend and the answer
WriteStep(w) ==
  /\ inflight[w].pc = "write"
  /\ \E r \in {repoExtend(store, now, inflight[w].id, inflight[w].end_date,
                          inflight[w].price, TRUE)} :
       /\ store' = r.store
       /\ Answered(w, [inflight[w] EXCEPT !.pc = "done", !.err = r.err.kind])
  /\ UNCHANGED <<nextID, now, last>>

\* deleteSubscription: one DELETE, and the answer
DeleteStep(w, id) ==
  /\ inflight[w].pc = "idle"
  /\ \E r \in {deleteSubscription(store, id, "none")} :
       /\ store' = r.store
       /\ Answered(w, [pc |-> "done", op |-> "Delete", id |-> id,
                       err |-> r.err.kind])
  /\ UNCHANGED <<nextID, now, last>>

\* the goroutine ends with its request
Return(w) ==
  /\ inflight[w].pc = "done"
  /\ Answered(w, Idle)
  /\ UNCHANGED <<store, nextID, now, last>>

NextRace ==
  \/ \E w \in Workers, input \in RaceCreateInputs : StartCreate(w, input)
  \/ \E w \in Workers : ExistsStep(w)
  \/ \E w \in Workers : InsertStep(w)
  \/ \E w \in Workers, id \in IDs, d \in RaceExtendDates :
       StartExtend(w, id, d, NewPrice)
  \/ \E w \in Workers : LoadStep(w)
  \/ \E w \in Workers : WriteStep(w)
  \/ \E w \in Workers, id \in IDs : DeleteStep(w, id)
  \/ \E w \in Workers : Return(w)

SpecRace == Init /\ [][NextRace]_vars

\* ------------------------------------------------------------- month arithmetic
\* of the properties: a bucket as the number of months since year 0
Idx(dateStr) == TimeParse(dateStr).year * 12 + (TimeParse(dateStr).month - 1)
NowIdx == now.year * 12 + (now.month - 1)
Max2(a, b) == IF a >= b THEN a ELSE b
Min2(a, b) == IF a <= b THEN a ELSE b
Span(lo, hi) == IF hi >= lo THEN hi - lo + 1 ELSE 0

RECURSIVE SumOver(_, _)
SumOver(S, f) ==
  IF S = {} THEN 0
  ELSE LET x == CHOOSE y \in S : TRUE IN f[x] + SumOver(S \ {x}, f)

RECURSIVE SumCosts(_)
SumCosts(items) ==
  IF items = <<>> THEN 0 ELSE Head(items).cost + SumCosts(Tail(items))

\* the rows of a user, restricted to a service when the filter is not empty
OwnedRows(userID, serviceName) ==
  {i \in DOMAIN store :
     /\ store[i].user_id = userID
     /\ serviceName = EmptyStr \/ store[i].service_name = serviceName}

\* whole months of [from, to] that lie in [start_date, end_date or to]
OverlapMonths(i, fromStr, toStr) ==
  LET effEnd == IF IsNil(store[i].end_date) THEN Idx(toStr)
                ELSE Idx(Deref(store[i].end_date))
  IN  Span(Max2(Idx(fromStr), Idx(store[i].start_date)), Min2(Idx(toStr), effEnd))

TotalCostAnswered ==
  /\ last.op = "GetTotalCost"
  /\ last.err = "none"

\* C1: for periodFrom <= periodTo the total is the sum, over the user's stored
\* subscriptions (of the filtered service), of price x whole months of overlap.
C1_TotalIsSumOfOverlaps ==
  (TotalCostAnswered /\ Idx(last.from) <= Idx(last.to)) =>
    LET Cost == [i \in DOMAIN store |->
                  store[i].price * OverlapMonths(i, last.from, last.to)]
    IN  last.totalCost = SumOver(OwnedRows(last.user_id, last.service_name), Cost)

\* the example of the specification: 01-2026..12-2026 at 500 is 12 months, 6000,
\* beside a second subscription of the user that is billed too
C1_Witness ==
  /\ TotalCostAnswered
  /\ last.user_id = "u1" /\ last.service_name = Netflix
  /\ last.from = D0126 /\ last.to = D1226
  /\ last.totalCost = 6000
  /\ \E i, j \in DOMAIN store :
       /\ store[i].user_id = "u1" /\ store[i].service_name = Netflix
       /\ store[i].start_date = D0126 /\ store[i].end_date = Ptr(D1226)
       /\ store[i].price = BasePrice
       /\ store[j].user_id = "u1" /\ store[j].service_name = Spotify

\* C2: GetTotalCost fails with InvalidDateRange when periodTo is a month
\* bucket strictly before periodFrom.
C2_InvertedPeriodRejected ==
  (/\ last.op = "GetTotalCost"
   /\ TimeParseOK(last.from) /\ TimeParseOK(last.to)
   /\ Idx(last.to) < Idx(last.from)
   /\ last.err # "StorageFailure")
    => last.err = "InvalidDateRange"

\* the line items the claim C3 describes, for one order of the rows
RECURSIVE NamedItems(_, _, _)
NamedItems(order, fromStr, toStr) ==
  IF order = <<>> THEN <<>>
  ELSE LET i == Head(order)
           rest == NamedItems(Tail(order), fromStr, toStr)
           m == OverlapMonths(i, fromStr, toStr)
       IN  IF m > 0
             THEN <<lineItem(store[i].service_name, store[i].price * m)>> \o rest
             ELSE rest

\* C3: one line item "<service_name>: <cost>" per retrieved subscription that
\* bills at least a month, in the order of the rows; none for the others.
C3_LineItemsNamed ==
  (TotalCostAnswered /\ Idx(last.from) <= Idx(last.to)) =>
    \E order \in Orders(totalCostRows(store, last.user_id, last.service_name,
                                      TimeParse(last.from), TimeParse(last.to))) :
      last.details = NamedItems(order, last.from, last.to)

\* C4: a subscription without end_date is billed from max(periodFrom,
\* start_date) through periodTo, and not at all when it starts after periodTo.
C4_OpenEndedBilledThroughPeriodTo ==
  (/\ TotalCostAnswered
   /\ \A i \in OwnedRows(last.user_id, last.service_name) : IsNil(store[i].end_date))
    =>
    LET Cost == [i \in DOMAIN store |->
                  store[i].price
                    * (IF Idx(store[i].start_date) > Idx(last.to) THEN 0
                       ELSE Span(Max2(Idx(last.from), Idx(store[i].start_date)),
                                 Idx(last.to)))]
    IN  last.totalCost = SumOver(OwnedRows(last.user_id, last.service_name), Cost)

\* start 06-2026, no end, asked 01-2026..12-2026: 7 months
C4_Witness ==
  /\ TotalCostAnswered
  /\ last.user_id = "u1" /\ last.from = D0126 /\ last.to = D1226
  /\ OwnedRows("u1", last.service_name) # {}
  /\ \A i \in OwnedRows("u1", last.service_name) :
       store[i].start_date = D0626 /\ IsNil(store[i].end_date)
  /\ last.totalCost = 7 * BasePrice * Cardinality(OwnedRows("u1", last.service_name))

\* C5: the costs of the line items add up to the total, and the total is the
\* same for every order in which storage may return the rows.
C5_ItemsSumToTotalAnyOrder ==
  TotalCostAnswered =>
    /\ SumCosts(last.details) = last.totalCost
    /\ \A order \in Orders(totalCostRows(store, last.user_id, last.service_name,
                                         TimeParse(last.from), TimeParse(last.to))) :
         svcGetTotalCost(store, last.user_id, last.service_name, last.from, last.to,
                         order, "none").totalCost = last.totalCost

C5_Witness ==
  /\ TotalCostAnswered
  /\ Len(last.details) = 2
  /\ last.details[1].cost # last.details[2].cost

\* ------------------------------------------------------------- countMonths
MonthNo(t) == t.year * 12 + (t.month - 1)

\* C6: countMonths is the inclusive month distance when start is not after
\* end and 0 otherwise: never negative, 1 on equal buckets, 0 when start is
\* after end.
C6_CountMonthsInclusive ==
  last.op = "countMonths" =>
    /\ last.months = Span(MonthNo(last.start), MonthNo(last.end))
    /\ last.months >= 0
    /\ last.start = last.end => last.months = 1
    /\ MonthNo(last.start) > MonthNo(last.end) => last.months = 0

\* December to the next January: the years differ by one, the months by -11
C6_Witness ==
  /\ last.op = "countMonths"
  /\ last.start.month = 12 /\ last.end.month = 1
  /\ last.end.year = last.start.year + 1
  /\ last.months = 2

\* ------------------------------------------------------------- extend
\* a step that answers an Extend request for a stored subscription, with a
\* well formed date, the subscription having been loaded or never asked for
ExtendOfStored ==
  /\ last'.op = "Extend"
  /\ last' # last
  /\ last'.id \in DOMAIN store
  /\ monthYearRegex(last'.end_date)
  /\ last'.err # "StorageFailure"

\* C7 as written: a valid newEndDate before the current month always fails
\* with PastExtension, whatever newPrice is passed.
C7_PastAlwaysPastExtension ==
  (/\ last.op = "Extend"
   /\ last.id \in DOMAIN store
   /\ monthYearRegex(last.end_date)
   /\ last.err # "StorageFailure"
   /\ Idx(last.end_date) < NowIdx)
    => last.err = "PastExtension"

\* C7 (amended): a valid newEndDate before the current month fails with
\* PastExtension when newPrice >= 0 and with NegativePrice when newPrice < 0,
\* for every state of the subscription, and the store is left as it was.
C7_PastRejectedAfterPriceCheck ==
  [][(ExtendOfStored /\ Idx(last'.end_date) < NowIdx) =>
       /\ last'.price >= 0 => last'.err = "PastExtension"
       /\ last'.price < 0 => last'.err = "NegativePrice"
       /\ store' = store]_vars

\* an open-ended subscription refused an end date in the past
C7_Witness ==
  /\ last.op = "Extend" /\ last.err = "PastExtension"
  /\ last.id \in DOMAIN store
  /\ IsNil(store[last.id].end_date)
  /\ last.price = NewPrice

\* C8 as written: on a subscription with an end_date, newEndDate equal to or
\* before it always fails with NonAdvancingExtension.
C8_NotAfterOldAlwaysNonAdvancing ==
  (/\ last.op = "Extend"
   /\ last.id \in DOMAIN store
   /\ monthYearRegex(last.end_date)
   /\ last.price >= 0
   /\ last.err \notin {"none", "StorageFailure"}
   /\ ~IsNil(store[last.id].end_date)
   /\ Idx(last.end_date) <= Idx(Deref(store[last.id].end_date)))
    => last.err = "NonAdvancingExtension"

\* C8 (amended): once the earlier checks have passed (newPrice >= 0,
\* newEndDate not before the current month nor before start_date), a
\* newEndDate equal to or before the existing end_date fails with
\* NonAdvancingExtension, and one strictly after it is not refused by this
\* rule and succeeds.
C8_NonAdvancingAfterEarlierChecks ==
  [][(/\ ExtendOfStored
      /\ last'.price >= 0
      /\ ~IsNil(store[last'.id].end_date)
      /\ Idx(last'.end_date) >= NowIdx
      /\ Idx(last'.end_date) >= Idx(store[last'.id].start_date)) =>
       IF Idx(last'.end_date) <= Idx(Deref(store[last'.id].end_date))
         THEN last'.err = "NonAdvancingExtension" /\ store' = store
         ELSE last'.err = "none"]_vars

\* existing end 12-2026, extension to 12-2026 refused
C8_Witness ==
  /\ last.op = "Extend" /\ last.err = "NonAdvancingExtension"
  /\ last.end_date = D1226
  /\ store[last.id].end_date = Ptr(D1226)

\* C9 as written: newEndDate before start_date, not rejected as past, always
\* fails with EndBeforeStart.
C9_BeforeStartAlwaysEndBeforeStart ==
  (/\ last.op = "Extend"
   /\ last.id \in DOMAIN store
   /\ monthYearRegex(last.end_date)
   /\ last.err \notin {"StorageFailure", "PastExtension"}
   /\ Idx(last.end_date) >= NowIdx
   /\ Idx(last.end_date) < Idx(store[last.id].start_date))
    => last.err = "EndBeforeStart"

\* C9 (amended): newEndDate before start_date, not rejected as past nor for a
\* negative newPrice, fails with EndBeforeStart; and no step ever stores an
\* end_date that is before the start_date.
C9_EndBeforeStartAfterEarlierChecks ==
  [][/\ (/\ ExtendOfStored
         /\ last'.price >= 0
         /\ Idx(last'.end_date) >= NowIdx
         /\ Idx(last'.end_date) < Idx(store[last'.id].start_date)) =>
          (last'.err = "EndBeforeStart" /\ store' = store)
     /\ \A i \in DOMAIN store' :
          (i \notin DOMAIN store \/ store'[i].end_date # store[i].end_date) =>
            \/ IsNil(store'[i].end_date)
            \/ Idx(Deref(store'[i].end_date)) >= Idx(store'[i].start_date)]_vars

\* a subscription starting 01-2027 refused the end date 12-2026 in 12-2026
C9_Witness ==
  /\ last.op = "Extend" /\ last.err = "EndBeforeStart"
  /\ Idx(last.end_date) < Idx(store[last.id].start_date)
  /\ Idx(last.end_date) >= NowIdx

\* C10: a successful Extend sets end_date, price and updated_at of the row
\* with that id and nothing else; no other step changes end_date or price of
\* a stored subscription.
C10_ExtendFrame ==
  [][/\ (last'.op = "Extend" /\ last' # last /\ last'.err = "none") =>
          /\ DOMAIN store' = DOMAIN store
          /\ last'.id \in DOMAIN store
          /\ store'[last'.id].end_date = Ptr(last'.end_date)
          /\ store'[last'.id].price = last'.price
          /\ store'[last'.id].updated_at = now
          /\ store'[last'.id].id = store[last'.id].id
          /\ store'[last'.id].user_id = store[last'.id].user_id
          /\ store'[last'.id].service_name = store[last'.id].service_name
          /\ store'[last'.id].start_date = store[last'.id].start_date
          /\ store'[last'.id].created_at = store[last'.id].created_at
          /\ \A i \in DOMAIN store \ {last'.id} : store'[i] = store[i]
     /\ \A i \in DOMAIN store \cap DOMAIN store' :
          (store'[i].end_date # store[i].end_date \/ store'[i].price # store[i].price)
            => (last'.op = "Extend" /\ last'.err = "none" /\ last'.id = i)]_vars

\* an extension went through while another subscription was stored
C10_Witness ==
  /\ last.op = "Extend" /\ last.err = "none"
  /\ Cardinality(DOMAIN store) = 2
  /\ store[last.id].price = NewPrice
  /\ store[last.id].end_date = Ptr(last.end_date)
  /\ \E i \in DOMAIN store : store[i].price = BasePrice

\* ------------------------------------------------------------- concurrency
\* active at the current month: end_date absent or not before it
ActiveRow(row) == IsNil(row.end_date) \/ Idx(Deref(row.end_date)) >= NowIdx

\* C11: under any interleaving of concurrent Extend calls a present end_date
\* only moves forward: no step lowers or clears it, and every write of an
\* Extend that commits puts a strictly later month in its place.
C11_EndDateOnlyMovesForward ==
  [][/\ \A i \in DOMAIN store \cap DOMAIN store' :
          ~IsNil(store[i].end_date) =>
            /\ ~IsNil(store'[i].end_date)
            /\ Idx(Deref(store'[i].end_date)) >= Idx(Deref(store[i].end_date))
     /\ \A w \in Workers :
          (/\ inflight[w].pc = "write"
           /\ inflight'[w].pc = "done"
           /\ inflight'[w].err = "none"
           /\ ~IsNil(store[inflight[w].id].end_date)) =>
            Idx(Deref(store'[inflight[w].id].end_date))
              > Idx(Deref(store[inflight[w].id].end_date))]_vars

\* two answered Create requests of the same (user_id, service_name), each of
\* which ran its existence check before the INSERT of the other
RacedCreates(w, v) ==
  /\ w # v
  /\ inflight[w].pc = "done" /\ inflight[w].op = "Create"
  /\ inflight[v].pc = "done" /\ inflight[v].op = "Create"
  /\ inflight[w].input.user_id = inflight[v].input.user_id
  /\ inflight[w].input.service_name = inflight[v].input.service_name
  /\ inflight[w].at > 0 /\ inflight[v].at > 0
  /\ inflight[w].seen <= inflight[v].at
  /\ inflight[v].seen <= inflight[w].at

C12_EndNotBeforeStart ==
  /\ \A i \in DOMAIN store :
       ~IsNil(store[i].end_date) =>
         Idx(Deref(store[i].end_date)) >= Idx(store[i].start_date)
  /\ (/\ last.op = "Create"
      /\ ~IsNil(last.input.end_date)
      /\ TimeParseOK(last.input.start_date)
      /\ TimeParseOK(Deref(last.input.end_date))
      /\ Idx(Deref(last.input.end_date)) < Idx(last.input.start_date))
       => last.err \notin {"none", "StorageFailure"}
  /\ (/\ last.op = "Extend"
      /\ last.id \in DOMAIN store
      /\ monthYearRegex(last.end_date)
      /\ Idx(last.end_date) < Idx(store[last.id].start_date))
       => last.err # "none"

\* a creation from 01-2027 to 12-2026 refused beside a stored subscription
\* that has an end_date
C12_Witness ==
  /\ last.op = "Create" /\ last.err = "EndBeforeStart"
  /\ last.input.start_date = D0127 /\ last.input.end_date = Ptr(D1226)
  /\ \E i \in DOMAIN store : ~IsNil(store[i].end_date)

\* C13: after any sequence of Create, Extend and Delete calls run one after
\* another, no user has two stored subscriptions with the same service_name
\* that are both active at the current month.
C13_OneActivePerUserAndService ==
  \A i, j \in DOMAIN store :
    (/\ i # j
     /\ store[i].user_id = store[j].user_id
     /\ store[i].service_name = store[j].service_name)
      => ~(ActiveRow(store[i]) /\ ActiveRow(store[j]))

\* ------------------------------------------------------------- create
\* a step that answers a Create request which the validation of the handler
\* let through to the service (price >= 0 among the rest)
CreateServed ==
  /\ last'.op = "Create"
  /\ last' # last
  /\ createValidation(last'.input) = "ok"

PairActive(input) ==
  \E i \in DOMAIN store :
    /\ store[i].user_id = input.user_id
    /\ store[i].service_name = input.service_name
    /\ ActiveRow(store[i])

\* C14: storage not failing, Create with price >= 0 fails with AlreadyExists
\* exactly when an active subscription of the same (user_id, service_name) is
\* stored; otherwise (none, or only expired ones) it inserts one new
\* subscription carrying the submitted fields and returns its assigned id.
C14_AlreadyExistsIffActive ==
  [][(CreateServed /\ last'.err # "StorageFailure") =>
       IF PairActive(last'.input)
         THEN /\ last'.err = "AlreadyExists"
              /\ store' = store
              /\ nextID' = nextID
         ELSE /\ last'.err = "none"
              /\ last'.id = nextID
              /\ nextID' = nextID + 1
              /\ DOMAIN store' = DOMAIN store \cup {nextID}
              /\ nextID \notin DOMAIN store
              /\ \A i \in DOMAIN store : store'[i] = store[i]
              /\ store'[nextID].id = nextID
              /\ store'[nextID].user_id = last'.input.user_id
              /\ store'[nextID].service_name = last'.input.service_name
              /\ store'[nextID].price = last'.input.price
              /\ store'[nextID].start_date = last'.input.start_date
              /\ store'[nextID].end_date = last'.input.end_date]_vars

\* a subscription created while an expired one of the same user and service
\* is stored
C14_Witness ==
  /\ last.op = "Create" /\ last.err = "none"
  /\ last.id \in DOMAIN store
  /\ \E i \in DOMAIN store \ {last.id} :
       /\ store[i].user_id = store[last.id].user_id
       /\ store[i].service_name = store[last.id].service_name
       /\ ~ActiveRow(store[i])

\* subscriptions with a negative price and every mix of the other fields,
\* well formed or not
NegativePriceSubs ==
  {NewSub(u, n, p, sd, ed) :
     u \in {"u1", NilUUID}, n \in {Netflix, Spotify, EmptyStr},
     p \in {-1, -BasePrice}, sd \in {D0126, D1326, EmptyStr},
     ed \in {NilStr, Ptr(D1226)}}

\* C16: Create with a negative price always fails with NegativePrice,
\* whatever the other fields and the stored state are, and calls neither the
\* existence check nor the insert: a storage fault at either of them changes
\* nothing in the answer, no id is handed out and the store stays as it was.
C16_NegativePriceAlwaysRefused ==
  /\ \A sub \in NegativePriceSubs, fault \in {"none", "exists", "insert"} :
       svcCreate(store, nextID, now, sub, fault)
         = [err |-> Err("NegativePrice", FALSE), id |-> 0, store |-> store,
            nextID |-> nextID]
  /\ (/\ last.op = "Create"
      /\ last.input.price < 0
      /\ last.input.user_id # NilUUID
      /\ ~trimsToEmpty(last.input.service_name)) =>
       /\ last.err = "NegativePrice"
       /\ last.id = 0
       /\ last.id \notin DOMAIN store

\* a negative price refused while an active subscription of the same user
\* and service is stored
C16_Witness ==
  /\ last.op = "Create" /\ last.err = "NegativePrice"
  /\ last.input.price < 0
  /\ PairActive(last.input)

\* C17: every stored subscription has price >= 0; Create refuses a negative
\* price and Extend refuses a negative new price, in the handler (400) and in
\* the service alike, before any write.
C17_StoredPriceNonNegative ==
  /\ \A i \in DOMAIN store : store[i].price >= 0
  /\ \A id \in IDs, d \in ExtendDates, fault \in {"none", "load", "write"} :
       svcExtend(store, now, id, d, -1, fault)
         = [err |-> Err("NegativePrice", FALSE), store |-> store]
  /\ (/\ last.op = "Create"
      /\ last.input.price < 0
      /\ last.input.user_id # NilUUID
      /\ ~trimsToEmpty(last.input.service_name)) =>
       (last.err = "NegativePrice" /\ last.status = StatusBadRequest)
  /\ (/\ last.op = "Extend"
      /\ last.price < 0
      /\ monthYearRegex(last.end_date)) =>
       (last.err = "NegativePrice" /\ last.status = StatusBadRequest)

\* a negative new price refused for a stored subscription, whose price stays
C17_Witness ==
  /\ last.op = "Extend" /\ last.err = "NegativePrice"
  /\ last.id \in DOMAIN store
  /\ store[last.id].price = BasePrice

C19_CreateThenGetRoundTrip ==
  [][/\ (last'.op = "Create" /\ last' # last /\ last'.err = "none") =>
          /\ last'.id \in DOMAIN store' \ DOMAIN store
          /\ store'[last'.id].user_id = last'.input.user_id
          /\ store'[last'.id].service_name = last'.input.service_name
          /\ store'[last'.id].price = last'.input.price
          /\ store'[last'.id].start_date = last'.input.start_date
          /\ store'[last'.id].end_date = last'.input.end_date
     /\ (last'.op = "GetByID" /\ last' # last /\ last'.err = "none") =>
          /\ last'.id \in DOMAIN store
          /\ last'.sub = store[last'.id]
          /\ store' = store
     /\ \A i \in DOMAIN store :
          (i \notin DOMAIN store' \/ store'[i] # store[i]) =>
            /\ last'.op \in {"Extend", "Delete"}
            /\ last'.id = i
            /\ last'.err = "none"]_vars

\* the subscription created with "01-2026" fetched with "01-2026" and the
\* other submitted fields
C19_Witness ==
  /\ last.op = "GetByID" /\ last.err = "none"
  /\ last.sub.start_date = D0126
  /\ last.sub.end_date = Ptr(D1226)
  /\ last.sub.user_id = "u1" /\ last.sub.service_name = Netflix
  /\ last.sub.price = BasePrice
  /\ last.sub.id = last.id

\* ------------------------------------------------------------- list
\* a List request that listSubscription passed on to the service
ListServed ==
  /\ last.op = "List"
  /\ last.query.min_price >= 0 /\ last.query.max_price >= 0
  /\ last.query.limit <= MaxLimit

PricesInverted(q) ==
  q.min_price > 0 /\ q.max_price > 0 /\ q.min_price > q.max_price

\* the rows of the user that pass the filter of the query, by the claim's
\* words: name contained whatever the case, price within the bounds that are set
Listable(q, userID) ==
  {i \in DOMAIN store :
     /\ store[i].user_id = userID
     /\ q.service_name = EmptyStr
          \/ ilikeContains(store[i].service_name, q.service_name)
     /\ q.min_price = 0 \/ store[i].price >= q.min_price
     /\ q.max_price = 0 \/ store[i].price <= q.max_price}

\* C20: List fails with InvalidFilter, without querying storage (a storage
\* fault does not show), exactly when min_price > 0, max_price > 0 and
\* min_price > max_price; for any other filter it queries storage once (a
\* storage fault is its only failure) and returns subscriptions of that user
\* as storage returned them: stored rows that pass the filter, none twice, as
\* many as limit and offset leave.
C20_InvalidFilterIffPricesInverted ==
  ListServed =>
    /\ last.err = "InvalidFilter" <=> PricesInverted(last.query)
    /\ last.err \in {"InvalidFilter", "StorageFailure", "none"}
    /\ last.err # "none" => last.subs = <<>>
    /\ last.err = "none" =>
         LET page == IF last.query.limit > 0 THEN last.query.limit ELSE DefaultLimit
             rest == Cardinality(Listable(last.query, last.user_id)) - last.query.offset
         IN  /\ \A k \in DOMAIN last.subs :
                  /\ last.subs[k].id \in Listable(last.query, last.user_id)
                  /\ last.subs[k] = store[last.subs[k].id]
                  /\ last.subs[k].user_id = last.user_id
             /\ \A k, l \in DOMAIN last.subs :
                  last.subs[k].id = last.subs[l].id => k = l
             /\ Len(last.subs) = Max2(0, Min2(page, rest))

\* min_price 600 above max_price 500 refused for a user who has subscriptions
C20_Witness ==
  /\ ListServed
  /\ last.query.min_price = NewPrice /\ last.query.max_price = BasePrice
  /\ last.err = "InvalidFilter"
  /\ \E i \in DOMAIN store : store[i].user_id = last.user_id

\* ------------------------------------------------------------- errors, frame
\* C21: a Create, Extend or Delete that answers an error (validation,
\* NotFound, AlreadyExists, storage failure) leaves the stored subscriptions
\* and all their fields as they were: every check runs before the one write.
C21_ErrorsLeaveStore ==
  [][(/\ last'.op \in {"Create", "Extend", "Delete"}
      /\ last'.err # "none") => store' = store]_vars

\* an extension refused as non-advancing; the subscription keeps its end_date
\* and its price
C21_Witness ==
  /\ last.op = "Extend" /\ last.err = "NonAdvancingExtension"
  /\ last.price = NewPrice
  /\ store[last.id].price = BasePrice
  /\ store[last.id].end_date = Ptr(D1226)

\* C22: Extend is answered as not found only when no subscription has the
\* id; a storage failure while the subscription is loaded, or a validation
\* failure, is never answered as "subscription not found".
C22_NotFoundOnlyWhenAbsent ==
  (last.op = "Extend" /\ last.status = StatusNotFound) =>
    (last.err = "NotFound" /\ last.id \notin DOMAIN store)

\* ------------------------------------------------------------- forecast warning
\* C23: the total cost answer carries the forecast warning exactly when
\* periodTo is a month strictly after the current month; and with or without
\* it total_cost and details are those the service computed.
C23_WarningIffPeriodToInFuture ==
  TotalCostAnswered =>
    /\ last.warning <=> Idx(last.to) > NowIdx
    /\ \E order \in Orders(totalCostRows(store, last.user_id, last.service_name,
                                         TimeParse(last.from), TimeParse(last.to))) :
         LET r == svcGetTotalCost(store, last.user_id, last.service_name,
                                  last.from, last.to, order, "none")
         IN  last.totalCost = r.totalCost /\ last.details = r.details

\* asked in 12-2026 for a period to 01-2027: a warning beside a total that
\* bills the coming month
C23_Witness ==
  /\ TotalCostAnswered
  /\ last.warning
  /\ last.to = D0127 /\ NowIdx = Idx(D1226)
  /\ last.totalCost > 0

\* ------------------------------------------------------------- reads
\* the same line items, whatever their order
SameItems(a, b) ==
  /\ Len(a) = Len(b)
  /\ \A k \in DOMAIN a :
       Cardinality({l \in DOMAIN a : a[l] = a[k]})
         = Cardinality({l \in DOMAIN b : b[l] = a[k]})

\* C24: GetTotalCost, GetByID and List have no side effects: answered or
\* failed, they leave every stored subscription and the id sequence as they
\* were; so the same GetTotalCost call on the same store in the same month
\* gives the same total and the same line items again, in whatever order
\* storage hands the rows over this time.
C24_ReadsHaveNoSideEffects ==
  [][/\ last'.op \in {"GetTotalCost", "GetByID", "List"} =>
          (store' = store /\ nextID' = nextID /\ now' = now)
     /\ (last'.op = "GetTotalCost" /\ last'.err = "none") =>
          \A order \in Orders(totalCostRows(store', last'.user_id,
                                            last'.service_name,
                                            TimeParse(last'.from),
                                            TimeParse(last'.to))) :
            LET r == getTotalCost(store', now', last'.user_id, last'.service_name,
                                  last'.from, last'.to, order, "none")
            IN  /\ r.err = NoErr
                /\ r.totalCost = last'.totalCost
                /\ SameItems(r.details, last'.details)
                /\ r.warning = last'.warning]_vars

\* a total over two subscriptions of different cost, read from a store that
\* is still what it was
C24_Witness ==
  /\ TotalCostAnswered
  /\ Len(last.details) = 2
  /\ last.details[1].cost > last.details[2].cost
  /\ Cardinality(DOMAIN store) = 2

\* ------------------------------------------------------------- date format
\* C25: every stored subscription has a start_date of the form MM-YYYY with
\* month 01..12 and an end_date that is absent or of that form, and a create
\* request whose start_date is anything else (malformed, month 00 or 13, or
\* empty), its other fields being acceptable, is answered InvalidDateFormat
\* by the handler, before the service is called.
C25_BadStartDateRefusedByHandler ==
  /\ \A i \in DOMAIN store :
       /\ monthYearRegex(store[i].start_date)
       /\ IsNil(store[i].end_date) \/ monthYearRegex(Deref(store[i].end_date))
  /\ (/\ last.op = "Create"
      /\ createValidation([last.input EXCEPT !.start_date = D0126,
                                             !.end_date = NilStr]) = "ok"
      /\ ~monthYearRegex(last.input.start_date))
       => (last.err = "InvalidDateFormat" /\ last.status = StatusBadRequest)

\* ------------------------------------------------------------- extend, as a whole
\* C26: unless storage fails, Extend(id, newEndDate, newPrice) succeeds if and
\* only if newEndDate has the form MM-YYYY, newPrice >= 0, the subscription
\* exists, newEndDate is not before the current month, not before start_date,
\* and the subscription has no end_date or one strictly before newEndDate; a
\* newEndDate equal to the current month is accepted, and after a success the
\* subscription has that end_date.
C26_ExtendSucceedsIff ==
  [][(/\ last'.op = "Extend"
      /\ last' # last
      /\ last'.err # "StorageFailure") =>
       /\ last'.err = "none" <=>
            /\ monthYearRegex(last'.end_date)
            /\ last'.price >= 0
            /\ last'.id \in DOMAIN store
            /\ Idx(last'.end_date) >= NowIdx
            /\ Idx(last'.end_date) >= Idx(store[last'.id].start_date)
            /\ \/ IsNil(store[last'.id].end_date)
               \/ Idx(Deref(store[last'.id].end_date)) < Idx(last'.end_date)
       /\ last'.err = "none" =>
            /\ last'.id \in DOMAIN store'
            /\ store'[last'.id].end_date = Ptr(last'.end_date)]_vars

\* an extension to the current month itself went through
C26_Witness ==
  /\ last.op = "Extend" /\ last.err = "none" /\ last.status = StatusOK
  /\ Idx(last.end_date) = NowIdx
  /\ store[last.id].end_date = Ptr(last.end_date)
  /\ Idx(store[last.id].start_date) < NowIdx

\* ------------------------------------------------------------- ownership
\* another price and another period for a row
AlterRow(row) ==
  [row EXCEPT !.price = row.price + BasePrice, !.start_date = D0126,
              !.end_date = NilStr]

\* the stores that hold what st holds for userID and something else for the
\* other users: some of their rows gone, some altered, one more added
ForeignVariants(st, nid, userID) ==
  LET Foreign == {i \in DOMAIN st : st[i].user_id # userID}
      Base == {[i \in DOMAIN st \ drop |->
                  IF i \in alter THEN AlterRow(st[i]) ELSE st[i]] :
                drop \in SUBSET Foreign, alter \in SUBSET Foreign}
      Added == {repoCreate(b, nid, ZeroTime,
                           NewSub(u, Netflix, BasePrice, D0126, NilStr), TRUE).store :
                  b \in Base, u \in Users \ {userID}}
  IN  Base \cup Added

\* C27: GetTotalCost depends on the subscriptions of its user only: on every
\* store that holds the same subscriptions for that user and other ones for
\* the other users, the same call selects the same rows and gives the same
\* total and line items; and Create, Extend and Delete change at most the one
\* subscription they name.
C27_OnlyOwnSubscriptionsCount ==
  /\ [](TotalCostAnswered =>
          LET Rows(st) == totalCostRows(st, last.user_id, last.service_name,
                                        TimeParse(last.from), TimeParse(last.to))
              Answer(st, order) == svcGetTotalCost(st, last.user_id, last.service_name,
                                                   last.from, last.to, order, "none")
          IN  /\ \E order \in Orders(Rows(store)) :
                   /\ last.totalCost = Answer(store, order).totalCost
                   /\ last.details = Answer(store, order).details
              /\ \A st \in ForeignVariants(store, nextID, last.user_id) :
                   /\ Rows(st) = Rows(store)
                   /\ \A order \in Orders(Rows(store)) :
                        Answer(st, order) = Answer(store, order))
  /\ [][\A i \in DOMAIN store \cup DOMAIN store' :
          (\/ i \notin DOMAIN store
           \/ i \notin DOMAIN store'
           \/ store'[i] # store[i])
            => (last'.op \in {"Create", "Extend", "Delete"} /\ last'.id = i)]_vars

\* a total of u1 was answered while a subscription of u2 that runs in the
\* period was stored
C27_Witness ==
  /\ TotalCostAnswered
  /\ last.user_id = "u1" /\ last.service_name = EmptyStr
  /\ last.totalCost > 0
  /\ \E i \in DOMAIN store :
       /\ store[i].user_id = "u2"
       /\ overlapsPeriod(store[i], TimeParse(last.from), TimeParse(last.to))

\* ------------------------------------------------------------- overlap filter
\* the months a period may begin or end with
PeriodMonths == {D0126, D0626, D1226, D0127}

\* the cost loop of the service over stored rows, taken in the order o
LoopOver(o, fromStr, toStr) ==
  costLoop([k \in 1..Len(o) |-> scanTotalCostRow(store[o[k]])], 1,
           TimeParse(fromStr), TimeParse(toStr), [totalCost |-> 0, details |-> <<>>])

\* C28: for periodFrom <= periodTo and a stored subscription whose end_date is
\* not before its start_date, the overlap filter of the query selects it
\* exactly when the service bills it at least one month, and a subscription
\* the filter leaves out would be billed 0 months; so the total answered,
\* computed over the selected rows, is the total the cost loop gives over all
\* the subscriptions of the user (of the service asked for).
C28_FilterSelectsBilledRows ==
  /\ \A i \in DOMAIN store : \A f, t \in PeriodMonths :
       (/\ Idx(f) <= Idx(t)
        /\ IsNil(store[i].end_date)
             \/ Idx(Deref(store[i].end_date)) >= Idx(store[i].start_date))
         => LET months == monthsBilled(scanTotalCostRow(store[i]),
                                       TimeParse(f), TimeParse(t))
            IN  /\ overlapsPeriod(store[i], TimeParse(f), TimeParse(t)) <=> months >= 1
                /\ ~overlapsPeriod(store[i], TimeParse(f), TimeParse(t)) => months = 0
  /\ (/\ TotalCostAnswered
      /\ Idx(last.from) <= Idx(last.to)
      /\ \A i \in DOMAIN store :
           IsNil(store[i].end_date)
             \/ Idx(Deref(store[i].end_date)) >= Idx(store[i].start_date))
       => \A all \in Orders(OwnedRows(last.user_id, last.service_name)) :
            LoopOver(all, last.from, last.to).totalCost = last.totalCost

\* a total was answered from one selected subscription of the user while
\* another one of the same user was left out by the filter
C28_Witness ==
  /\ TotalCostAnswered
  /\ Idx(last.from) <= Idx(last.to)
  /\ last.totalCost > 0
  /\ \E i, j \in OwnedRows(last.user_id, last.service_name) :
       /\ overlapsPeriod(store[i], TimeParse(last.from), TimeParse(last.to))
       /\ ~overlapsPeriod(store[j], TimeParse(last.from), TimeParse(last.to))

\* ------------------------------------------------------------- extend against delete
\* the write of an Extend request: its UPDATE and the answer
ExtendWrites(w) ==
  /\ inflight[w].pc = "write"
  /\ inflight'[w].pc = "done"

\* C29: when a Delete of the subscription commits between the load of an
\* Extend and its write, the Extend fails with not found and changes nothing;
\* an Extend that reports success has updated the stored row of its id; no
\* write of an Extend adds or removes a row, and an id that has left the
\* table is never stored again, rows being added with fresh ids only.
C29_ExtendNeverRevivesDeleted ==
  [][/\ \A w \in Workers :
          ExtendWrites(w) =>
            /\ DOMAIN store' = DOMAIN store
            /\ inflight[w].id \notin DOMAIN store =>
                 (inflight'[w].err = "NotFound" /\ store' = store)
            /\ inflight'[w].err = "none" =>
                 /\ inflight[w].id \in DOMAIN store
                 /\ store'[inflight[w].id].end_date = Ptr(inflight[w].end_date)
                 /\ store'[inflight[w].id].price = inflight[w].price
     /\ \A i \in DOMAIN store' \ DOMAIN store : i >= nextID /\ i < nextID'
     /\ \A i \in DOMAIN store : i < nextID
     /\ nextID' >= nextID]_vars

\* an Extend that had loaded its subscription was answered not found, the
\* other request having deleted the subscription in between
C29_Witness ==
  \E w, v \in Workers :
    /\ inflight[w].pc = "done" /\ inflight[w].op = "Extend"
    /\ inflight[w].err = "NotFound"
    /\ inflight[w].sub.id = inflight[w].id
    /\ inflight[v].pc = "done" /\ inflight[v].op = "Delete"
    /\ inflight[v].err = "none" /\ inflight[v].id = inflight[w].id
    /\ inflight[w].id \notin DOMAIN store

====
